---- MODULE Spec2Model ----
(***************************************************************************)
(* Model of script.js: the three.js particle background (init3DBackground, *)
(* onWindowResize, animate), the top-to-bottom evaluation of the module,   *)
(* and the Firebase / contact-form handlers.                               *)
(*                                                                         *)
(* Units.  Math.random() yields k/RandDenom for k in 0..RandDenom-1.       *)
(*   position  : numerator over RandDenom            (range -25 .. 25)     *)
(*   rotation  : numerator over RandDenom, times pi  (range 0 .. pi)       *)
(*   scale     : numerator over 2*RandDenom          (range 0.5 .. 1.0)    *)
(*   group rotation : multiples of 0.0001 rad                              *)
(*   pixel ratios   : halves (2 = 1.0, 4 = 2.0)                            *)
(*                                                                         *)
(* The particles of the group are a function of the values Math.random()   *)
(* returned while they were built; the state keeps their number and that   *)
(* stream (group.children), and Child(g, i) is the i-th particle.          *)
(***************************************************************************)
EXTENDS Integers, Sequences, FiniteSets

VARIABLES
    pc,             \* position of the module's top-to-bottom evaluation
    dom,            \* ids of the elements the document holds
    window,         \* innerWidth, innerHeight, devicePixelRatio
    resizePending,  \* the host has a resize event to deliver
    domLoaded,      \* DOMContentLoaded has been fired
    scene, camera, renderer, group,   \* script.js:11
    canvasDisplay,  \* style.display of #bg-canvas
    console,        \* messages written with console.error
    uncaught,       \* exceptions that reached the host uncaught
    listeners,      \* addEventListener calls made so far, per event
    rafPending,     \* animation-frame callbacks registered and not yet run
    ticks,          \* calls of animate() so far
    db, userId,     \* script.js:135
    fbpc,           \* position of initializeFirebase()
    button,         \* the submit button: disabled, label (innerHTML)
    formMessage,    \* #form-message
    fields,         \* the values of the form's inputs
    inflight,       \* submit handlers suspended at an await
    docs,           \* documents the store holds
    submits         \* submit events handled so far

vars3d == <<scene, camera, renderer, group, canvasDisplay, listeners, rafPending, ticks>>
varsForm == <<db, userId, fbpc, button, formMessage, fields, inflight, docs, submits>>
vars == <<pc, dom, window, resizePending, domLoaded, console, uncaught, vars3d, varsForm>>

\* ---------------------------------------------------------------- bounds
MaxTicks == 3        \* animate() calls explored
RandDenom == 3       \* Math.random() is k/RandDenom
MaxSubmits == 2      \* submit events explored

\* ------------------------------------------------------ program constants
particleCount == 500
RotationStep == 5    \* 0.0005 rad
MaxPixelRatio == 2
BoxSide == 50

\* ----------------------------------------------------------------- values
Undef == [t |-> "undefined"]
Num(n) == [t |-> "number", n |-> n]
IsNum(v) == v.t = "number"

Min(a, b) == IF a < b THEN a ELSE b

RECURSIVE Gcd(_, _)
Gcd(a, b) == IF b = 0 THEN a ELSE Gcd(b, a % b)

\* window.innerWidth / window.innerHeight, as a fraction in lowest terms
Aspect(w, h) == <<w \div Gcd(w, h), h \div Gcd(w, h)>>

\* faulty variant: the cap of the pixel ratio is forgotten
PixelRatioUncapped(d) == d

\* Math.min(window.devicePixelRatio, 2), in halves
PixelRatio(d) == Min(d, 2 * MaxPixelRatio)

\* the viewports the host may present: sizes in pixels, ratios 1.0, 2.0, 3.0
Viewports == [innerWidth : {800, 1024}, innerHeight : {600, 768},
              devicePixelRatio : {2, 4, 6}]

ElementIds == {"bg-canvas", "year", "contact-form"}

\* the n-th call of Math.random() (n = 0, 1, ...) of a page load: numerator k
Random(seed, n) == (seed + n) % RandDenom

\* script.js:50-65, particle i of the loop; six calls of Math.random() each
Particle(seed, i) ==
    LET r(j) == Random(seed, 6 * (i - 1) + j)
    IN [position |-> [x |-> (2 * r(0) - RandDenom) * (BoxSide \div 2),
                      y |-> (2 * r(1) - RandDenom) * (BoxSide \div 2),
                      z |-> (2 * r(2) - RandDenom) * (BoxSide \div 2)],
        rotation |-> [x |-> Num(r(3)), y |-> Undef, z |-> Num(r(4))],
        scale    |-> r(5) + RandDenom]

\* new THREE.Group(), and the group after n iterations of the loop
GroupOf(n, seed) == [rotation |-> [x |-> 0, y |-> 0, z |-> 0],
                     children |-> [n |-> n, stream |-> seed]]

Child(g, i) == Particle(g.children.stream, i)

\* faulty variant: the guard of lines 16-19 is missing
CanvasFoundAlways(d) == TRUE

\* script.js:15-16
CanvasFound(d) == "bg-canvas" \in d

\* faulty variant: the resize listener is registered before anything is constructed
StepsListenFirst == <<"listen", "scene", "camera", "renderer", "configure", "group",
                      "particles", "lights", "animate">>

\* the statements of init3DBackground's try block after the canvas guard
Steps == <<"scene", "camera", "renderer", "configure", "group", "particles",
           "lights", "listen", "animate">>

StepAt(name) == CHOOSE k \in 1..Len(Steps) : Steps[k] = name

\* faulty variant: the frame is requested after the redraw, so a throw skips it
RafAfterRender(raf, renderThrows) == IF renderThrows THEN raf ELSE raf + 1

\* animate(): the frame request comes first, whatever the redraw does
RafAfterAnimate(raf, renderThrows) == raf + 1

\* faulty variant: only one axis is advanced
AnimateRotationXOnly(g) ==
    IF g # Undef THEN [g EXCEPT !.rotation.x = @ + RotationStep] ELSE g

\* script.js:105-108
AnimateRotation(g) ==
    IF g # Undef
    THEN [g EXCEPT !.rotation.x = @ + RotationStep, !.rotation.y = @ + RotationStep]
    ELSE g

\* renderer.render(scene, camera) throws by itself or for want of a renderer
RenderThrows(r, envThrows) == r = Undef \/ envThrows


\* the value of document.addEventListener(...), which line 270 goes on to call
AddEventListenerResult == Undef
IsCallable(v) == v.t = "function"

\* no task of the script is running: the host may deliver an event
Idle == pc \in {"start", "aborted", "done"}

\* faulty variant: the guard forgets the user id
ReadyDbOnly(d, u) == d # Undef

\* script.js:215, negated
Ready(d, u) == d # Undef /\ u # Undef

InitialButton == [disabled |-> FALSE, label |-> "Send"]
NoMessage == [kind |-> "none", name |-> ""]
EmptyFields == [name |-> "", email |-> "", message |-> ""]

\* ------------------------------------------------------------------ Init
\* The page before the module is evaluated.
InitCommon ==
    /\ window \in Viewports
    /\ resizePending = "none"
    /\ domLoaded = FALSE
    /\ scene = Undef /\ camera = Undef /\ renderer = Undef /\ group = Undef
    /\ canvasDisplay = ""
    /\ console = {}
    /\ uncaught = {}
    /\ listeners = [resize |-> 0, DOMContentLoaded |-> 0, submit |-> 0]
    /\ rafPending = 0
    /\ ticks = 0
    /\ db = Undef /\ userId = Undef
    /\ fbpc = "idle"
    /\ button = InitialButton
    /\ formMessage = NoMessage
    /\ fields = EmptyFields
    /\ inflight = {}
    /\ docs = {}
    /\ submits = 0

Init ==
    /\ pc = "start"
    /\ dom \in SUBSET ElementIds
    /\ InitCommon

\* ------------------------------------------------- the particle background
\* script.js:13-92 and the call of line 114.  failAt = 0: nothing throws;
\* failAt = k: statement Steps[k] throws (for "animate": its redraw throws).
Init3DBackground ==
    /\ pc = "start"
    /\ pc' = "ui"
    /\ \E failAt \in 0..Len(Steps), seed \in 0..(RandDenom - 1) :
        LET found == CanvasFound(dom)
            Done(name) == found /\ (failAt = 0 \/ StepAt(name) < failAt)
            Reached(name) == found /\ (failAt = 0 \/ StepAt(name) <= failAt)
            thrown == found /\ failAt # 0
            constructed == IF Done("particles") THEN GroupOf(particleCount, seed)
                           ELSE IF Done("group") THEN GroupOf(0, seed) ELSE Undef
        IN  /\ (~found => failAt = 0 /\ seed = 0)
            /\ scene' = IF Done("scene")
                        THEN [t |-> "Scene",
                              children |-> (IF Done("particles") THEN <<"group">> ELSE <<>>)
                                           \o (IF Done("lights")
                                               THEN <<"ambientLight", "pointLight">>
                                               ELSE <<>>)]
                        ELSE Undef
            /\ camera' = IF Done("camera")
                         THEN [t |-> "PerspectiveCamera", fov |-> 75,
                               aspect |-> Aspect(window.innerWidth, window.innerHeight),
                               position |-> [x |-> 0, y |-> 0, z |-> 15]]
                         ELSE Undef
            /\ renderer' = IF Done("configure")
                           THEN [t |-> "WebGLRenderer",
                                 size |-> <<window.innerWidth, window.innerHeight>>,
                                 pixelRatio |-> PixelRatio(window.devicePixelRatio)]
                           ELSE IF Done("renderer")
                           THEN [t |-> "WebGLRenderer", size |-> <<300, 150>>,
                                 pixelRatio |-> 2]
                           ELSE Undef
            /\ listeners' = IF Done("listen")
                            THEN [listeners EXCEPT !.resize = @ + 1]
                            ELSE listeners
            /\ IF Reached("animate")
               THEN /\ rafPending' = RafAfterAnimate(rafPending, failAt # 0)
                    /\ group' = AnimateRotation(constructed)
                    /\ ticks' = ticks + 1
               ELSE /\ rafPending' = rafPending
                    /\ group' = constructed
                    /\ ticks' = ticks
            /\ console' = console \cup
                    (IF ~found THEN {"3D Canvas not found."}
                     ELSE IF thrown THEN {"Error initializing 3D background:"}
                     ELSE {})
            /\ canvasDisplay' = IF thrown /\ "bg-canvas" \in dom
                                THEN "none" ELSE canvasDisplay
    /\ UNCHANGED <<dom, window, resizePending, domLoaded, uncaught, varsForm>>

\* script.js:94-99, run by the host for a resize event.  Events are delivered
\* between tasks, never in the middle of the module's evaluation.
DispatchResize ==
    /\ Idle
    /\ resizePending = "pending"
    /\ IF listeners.resize = 0
       THEN /\ resizePending' = "dropped"
            /\ UNCHANGED <<camera, renderer, uncaught>>
       ELSE /\ resizePending' = "handled"
            /\ camera' = IF camera = Undef THEN camera
                         ELSE [camera EXCEPT !.aspect =
                                  Aspect(window.innerWidth, window.innerHeight)]
            /\ renderer' = IF camera = Undef \/ renderer = Undef THEN renderer
                           ELSE [renderer EXCEPT
                                   !.size = <<window.innerWidth, window.innerHeight>>,
                                   !.pixelRatio = PixelRatio(window.devicePixelRatio)]
            /\ uncaught' = IF camera = Undef \/ renderer = Undef
                           THEN uncaught \cup {"resize"} ELSE uncaught
    /\ UNCHANGED <<pc, dom, window, domLoaded, console, scene, group, canvasDisplay,
                   listeners, rafPending, ticks, varsForm>>

\* the host: the viewport or the device pixel ratio changes
ViewportChange ==
    /\ \E v \in Viewports : v # window /\ window' = v
    /\ resizePending' = "pending"
    /\ UNCHANGED <<pc, dom, domLoaded, console, uncaught, vars3d, varsForm>>

\* script.js:101-111, run by the host for a pending animation frame
Tick ==
    /\ Idle
    /\ rafPending > 0
    /\ ticks < MaxTicks
    /\ \E envThrows \in BOOLEAN :
        LET throws == RenderThrows(renderer, envThrows)
        IN  /\ rafPending' = RafAfterAnimate(rafPending - 1, throws)
            /\ uncaught' = IF throws THEN uncaught \cup {"render"} ELSE uncaught
    /\ group' = AnimateRotation(group)
    /\ ticks' = ticks + 1
    /\ UNCHANGED <<pc, dom, window, resizePending, domLoaded, console, scene, camera,
                   renderer, canvasDisplay, listeners, varsForm>>

\* ------------------------------------------------ the rest of the module
\* script.js:168-270: the listener is registered, and then the value
\* addEventListener returned is called (the "()" that closes line 270).
EvalUIListeners ==
    /\ pc = "ui"
    /\ listeners' = [listeners EXCEPT !.DOMContentLoaded = @ + 1]
    /\ IF IsCallable(AddEventListenerResult)
       THEN pc' = "firebase" /\ uncaught' = uncaught
       ELSE pc' = "aborted" /\ uncaught' = uncaught \cup {"module"}
    /\ UNCHANGED <<dom, window, resizePending, domLoaded, console, scene, camera,
                   renderer, group, canvasDisplay, rafPending, ticks, varsForm>>

\* script.js:168-269, the listener itself, run when the document is parsed
DOMContentLoaded ==
    /\ Idle
    /\ ~domLoaded
    /\ domLoaded' = TRUE
    /\ IF listeners.DOMContentLoaded = 0
       THEN UNCHANGED <<listeners, uncaught>>
       ELSE IF "year" \notin dom
       THEN listeners' = listeners /\ uncaught' = uncaught \cup {"DOMContentLoaded"}
       ELSE /\ listeners' = IF "contact-form" \in dom
                            THEN [listeners EXCEPT !.submit = @ + 1]
                            ELSE listeners
            /\ uncaught' = uncaught
    /\ UNCHANGED <<pc, dom, window, resizePending, console, scene, camera, renderer,
                   group, canvasDisplay, rafPending, ticks, varsForm>>

\* the user fills in the form
FilledFields == {[name |-> "Ann", email |-> "ann@x", message |-> "hi"],
                 [name |-> "Bob", email |-> "bob@x", message |-> "yo"]}

UserTypes ==
    /\ Idle
    /\ "contact-form" \in dom
    /\ \E f \in FilledFields : f # fields /\ fields' = f
    /\ UNCHANGED <<pc, dom, window, resizePending, domLoaded, console, uncaught, vars3d,
                   db, userId, fbpc, button, formMessage, inflight, docs, submits>>

\* script.js:211-236: the submit handler up to its first await
Submit ==
    /\ Idle
    /\ listeners.submit > 0
    /\ submits < MaxSubmits
    /\ submits' = submits + 1
    /\ IF ~Ready(db, userId)
       THEN /\ formMessage' = [kind |-> "connection-error", name |-> ""]
            /\ UNCHANGED <<button, inflight>>
       ELSE /\ button' = [disabled |-> TRUE, label |-> "Sending..."]
            /\ formMessage' = [kind |-> "submitting", name |-> ""]
            /\ inflight' = inflight \cup
                   {[id |-> submits + 1, data |-> fields,
                     originalButtonText |-> button.label,
                     path |-> userId, at |-> "addDoc"]}
    /\ UNCHANGED <<pc, dom, window, resizePending, domLoaded, console, uncaught, vars3d,
                   db, userId, fbpc, fields, docs>>

\* script.js:263-267
RestoreButton(s) == [disabled |-> FALSE, label |-> s.originalButtonText]

\* script.js:236-247 and 259-267: the promise of addDoc settles
AddDocSettles ==
    /\ Idle
    /\ \E s \in inflight, ok \in BOOLEAN :
        /\ s.at = "addDoc"
        /\ IF ok
           THEN /\ docs' = docs \cup {[id |-> s.id, data |-> s.data, path |-> s.path,
                                       status |-> "new"]}
                /\ inflight' = (inflight \ {s}) \cup {[s EXCEPT !.at = "timeout"]}
                /\ UNCHANGED <<formMessage, button, console>>
           ELSE /\ console' = console \cup {"Form Submission Error:"}
                /\ formMessage' = [kind |-> "error", name |-> ""]
                /\ button' = RestoreButton(s)
                /\ inflight' = inflight \ {s}
                /\ docs' = docs
    /\ UNCHANGED <<pc, dom, window, resizePending, domLoaded, uncaught, vars3d,
                   db, userId, fbpc, fields, submits>>

\* script.js:247-257 and 263-267: the one-second timer fires
TimeoutFires ==
    /\ Idle
    /\ \E s \in inflight :
        /\ s.at = "timeout"
        /\ formMessage' = [kind |-> "success", name |-> s.data.name]
        /\ fields' = EmptyFields
        /\ button' = RestoreButton(s)
        /\ inflight' = inflight \ {s}
    /\ UNCHANGED <<pc, dom, window, resizePending, domLoaded, console, uncaught, vars3d,
                   db, userId, fbpc, docs, submits>>

\* script.js:137-148 and the call of line 274: initializeFirebase() up to its
\* await.  fail names the call that throws, if one does.
CallInitializeFirebase ==
    /\ pc = "firebase"
    /\ pc' = "done"
    /\ \E fail \in {"none", "initializeApp", "getFirestore", "getAuth", "signIn"} :
        /\ db' = IF fail \in {"initializeApp", "getFirestore"} THEN db
                 ELSE [t |-> "Firestore"]
        /\ IF fail = "none"
           THEN fbpc' = "signing" /\ console' = console
           ELSE fbpc' = "failed" /\ console' = console \cup {"Firebase Initialization Error:"}
    /\ UNCHANGED <<dom, window, resizePending, domLoaded, uncaught, vars3d,
                   userId, button, formMessage, fields, inflight, docs, submits>>

\* script.js:145-164: the sign-in promise settles
SignInSettles ==
    /\ Idle
    /\ fbpc = "signing"
    /\ \E ok \in BOOLEAN, uid \in {"uid-1", "anon-uuid"} :
        IF ok
        THEN fbpc' = "ready" /\ userId' = [t |-> "string", s |-> uid] /\ console' = console
        ELSE /\ uid = "uid-1"
             /\ fbpc' = "failed"
             /\ userId' = userId
             /\ console' = console \cup {"Firebase Initialization Error:"}
    /\ UNCHANGED <<pc, dom, window, resizePending, domLoaded, uncaught, vars3d,
                   db, button, formMessage, fields, inflight, docs, submits>>

Next ==
    \/ Init3DBackground
    \/ DispatchResize
    \/ ViewportChange
    \/ Tick
    \/ EvalUIListeners
    \/ DOMContentLoaded
    \/ UserTypes
    \/ Submit

\* The module as the page loads it.
Spec == Init /\ [][Next]_vars

\* The Firebase half on its own: the state in which line 274 is about to run,
\* which the evaluation above does not reach (line 270 throws first).  The page
\* holds the form and no canvas.
InitFirebase ==
    /\ pc = "firebase"
    /\ dom = {"year", "contact-form"}
    /\ window \in Viewports
    /\ resizePending = "none"
    /\ domLoaded = FALSE
    /\ scene = Undef /\ camera = Undef /\ renderer = Undef /\ group = Undef
    /\ canvasDisplay = ""
    /\ console = {"3D Canvas not found."}
    /\ uncaught = {}
    /\ listeners = [resize |-> 0, DOMContentLoaded |-> 1, submit |-> 0]
    /\ rafPending = 0
    /\ ticks = 0
    /\ db = Undef /\ userId = Undef
    /\ fbpc = "idle"
    /\ button = InitialButton
    /\ formMessage = NoMessage
    /\ fields = EmptyFields
    /\ inflight = {}
    /\ docs = {}
    /\ submits = 0

NextFirebase ==
    \/ CallInitializeFirebase
    \/ SignInSettles
    \/ DOMContentLoaded
    \/ UserTypes
    \/ Submit
    \/ AddDocSettles
    \/ TimeoutFires

SpecFirebase == InitFirebase /\ [][NextFirebase]_vars

\* =================================================================== claims
Caught == "Error initializing 3D background:" \in console
Running == pc # "start" /\ "bg-canvas" \in dom /\ ~Caught

\* C1: whenever init3DBackground's try block throws, the canvas is hidden
\* and no animation-frame callback is pending (no loop was started).
C1_CaughtMeansNoLoop ==
    Caught => canvasDisplay = "none" /\ rafPending = 0

\* C2: without a #bg-canvas element init3DBackground returns without throwing,
\* logs the error, leaves scene, camera, renderer and group unset, registers
\* no frame callback and no listener, and hides nothing.
C2_NoCanvasIsInert ==
    (pc # "start" /\ "bg-canvas" \notin dom) =>
        /\ scene = Undef /\ camera = Undef /\ renderer = Undef /\ group = Undef
        /\ rafPending = 0 /\ ticks = 0
        /\ listeners.resize = 0
        /\ canvasDisplay = ""
        /\ "3D Canvas not found." \in console
        /\ ~Caught

C2_Witness ==
    /\ pc = "aborted" /\ "bg-canvas" \notin dom
    /\ resizePending = "dropped"

\* C3: once init3DBackground has completed successfully, exactly one
\* animation-frame callback is pending between ticks, also after a tick whose
\* redraw threw.
C3_OnePendingFrame ==
    Running => rafPending = 1

C3_Witness ==
    Running /\ ticks > 1 /\ "render" \in uncaught

\* C4: after N calls of animate() the group's rotation about x and about y is
\* N steps of 0.0005 rad, about z it is unchanged, and a tick changes neither
\* the particles nor the scene, the camera or the renderer, however resize
\* events interleave.
C4_RotationIsTicks ==
    /\ [](group # Undef =>
            group.rotation = [x |-> ticks * RotationStep,
                              y |-> ticks * RotationStep, z |-> 0])
    /\ [][(ticks' # ticks /\ pc' = pc) =>
            /\ group'.children = group.children
            /\ scene' = scene /\ camera' = camera /\ renderer' = renderer]_vars

C4_Witness ==
    /\ group # Undef /\ ticks > 2
    /\ group.rotation.x = 3 * RotationStep
    /\ resizePending = "handled"

\* the camera and the renderer agree with the viewport the window shows
MatchesViewport ==
    /\ camera.aspect[2] > 0
    /\ camera.aspect[1] * window.innerHeight = camera.aspect[2] * window.innerWidth
    /\ renderer.size = <<window.innerWidth, window.innerHeight>>
    /\ renderer.pixelRatio = IF window.devicePixelRatio <= 2 * MaxPixelRatio
                             THEN window.devicePixelRatio ELSE 2 * MaxPixelRatio

\* C5: after a successful init3DBackground and after every onWindowResize the
\* camera aspect is W/H of the current viewport, the renderer size W x H and
\* the pixel ratio min(d, 2); a renderer's pixel ratio never exceeds 2; ticks
\* alter none of these.
C5_ViewportFollowed ==
    /\ [](renderer # Undef => renderer.pixelRatio <= 2 * MaxPixelRatio)
    /\ [][/\ (pc = "start" /\ Running') => MatchesViewport'
          /\ (resizePending = "pending" /\ resizePending' = "handled") => MatchesViewport'
          /\ (ticks' # ticks /\ pc' = pc) => (camera' = camera /\ renderer' = renderer)
         ]_vars

C5_Witness ==
    /\ Running /\ resizePending = "handled" /\ ticks > 1
    /\ window.devicePixelRatio > 2 * MaxPixelRatio
    /\ renderer.pixelRatio = 2 * MaxPixelRatio
    /\ camera.aspect = <<128, 75>>

\* C6: after a successful init3DBackground the group holds 500 particles, each
\* with position components in [-25, 25], three rotation components that are
\* numbers in [0, pi], and a scale in [0.5, 1.0].
C6_ParticlesInRange ==
    Running =>
        /\ group.children.n = particleCount
        /\ \A i \in 1..particleCount :
            LET p == Child(group, i)
                InBox(v) == -(BoxSide \div 2) * RandDenom <= v
                            /\ v <= (BoxSide \div 2) * RandDenom
                Angle(v) == IsNum(v) /\ 0 <= v.n /\ v.n <= RandDenom
            IN  /\ InBox(p.position.x) /\ InBox(p.position.y) /\ InBox(p.position.z)
                /\ Angle(p.rotation.x) /\ Angle(p.rotation.y) /\ Angle(p.rotation.z)
                /\ RandDenom <= p.scale /\ p.scale <= 2 * RandDenom

\* C7: the evaluation of the module always reaches and invokes
\* initializeFirebase().
C7_FirebaseInvoked ==
    pc \in {"aborted", "done"} => fbpc # "idle"

\* C8: a document is written only for a submit that found db and userId set,
\* which they are only after sign-in completed; a submit that finds one unset
\* shows the connection error and changes neither the store, the button nor
\* the fields; the success message and the reset of the form follow a write
\* that succeeded.
C8_WriteOnlyWhenReady ==
    /\ []((docs # {} \/ inflight # {}) => (Ready(db, userId) /\ fbpc = "ready"))
    /\ [](userId # Undef => fbpc = "ready")
    /\ [](formMessage.kind = "success" =>
            \E d \in docs : d.data.name = formMessage.name)
    /\ [][/\ (submits' # submits /\ (db = Undef \/ userId = Undef)) =>
               /\ formMessage'.kind = "connection-error"
               /\ docs' = docs /\ inflight' = inflight
               /\ button' = button /\ fields' = fields
          /\ (fields # EmptyFields /\ fields' = EmptyFields) =>
               /\ formMessage'.kind = "success"
               /\ \E d \in docs : d.data.name = formMessage'.name
         ]_vars

C8_Witness ==
    /\ formMessage.kind = "success"
    /\ \E d \in docs : d.id > 1 /\ \A e \in docs : e.id = d.id

C10_ResizeNeverUnguarded ==
    /\ listeners.resize <= 1
    /\ listeners.resize > 0 => (scene # Undef /\ camera # Undef /\ renderer # Undef)
    /\ "resize" \notin uncaught

C10_Witness ==
    /\ resizePending = "handled" /\ Caught
    /\ camera # Undef /\ renderer # Undef
====
